---- MODULE Spec2Model ----
(***************************************************************************)
(* gitblog (src/main.py): mirrors the issues of a GitHub repository into   *)
(* README.md and into one backup file per issue under BACKUP/.             *)
(*                                                                         *)
(* The model follows main() step by step over several runs.  The           *)
(* repository (issues, labels, comments) is the environment; README.md     *)
(* and the backup directory persist from one run to the next.              *)
(*                                                                         *)
(* The calls that may raise are the calls of the GitHub API and, in        *)
(* save_issue, opening the backup file; writes to README.md succeed.  The  *)
(* backup directory exists (get_to_generate_issues creates it if missing). *)
(***************************************************************************)
EXTENDS Integers, Sequences, FiniteSets, TLC

\* ------------------------------------------------------------------ bounds
NumIssues == 8      \* issues of the repository, numbered 1..NumIssues
MaxRuns == 2        \* runs of main
MaxFaults == 1      \* failing API calls / file operations over all runs
MaxEdits == 1       \* title edits made on GitHub between runs

\* ------------------------------------------------------- program constants
ANCHOR_NUMBER == 5
IGNORE_LABELS == {"Top", "TODO", "Friends", "About", "Things"}

\* --------------------------------------------------------- the repository
Me == "alice"                       \* login of the authenticated user
Logins == {"alice", "bob"}
NoneVal == "<None>"                 \* Python's None

Issues == 1..NumIssues
\* The two newest issues are of any kind (by anyone, issue or pull request);
\* the older ones are issues of the authenticated user.
Varying == {NumIssues, NumIssues - 1}
\* The issue a run is asked for with --issue_number, and whose title is
\* edited: the newest one.
Picked == {NumIssues}

\* Labels as repo.get_labels() returns them.
RepoLabels ==
    << [name |-> "Zed", description |-> ""],
       [name |-> "Py",  description |-> NoneVal],
       [name |-> "Go",  description |-> "backend"],
       [name |-> "Top", description |-> "a-notes"],
       [name |-> "Art", description |-> NoneVal] >>

\* Which issue carries which label.
Carries(i, l) ==
    CASE l = "Go"  -> TRUE
      [] l = "Py"  -> i \in {NumIssues, NumIssues - 1}
      [] l = "Art" -> i \in {1, NumIssues}
      [] l = "Top" -> i = 2
      [] OTHER     -> FALSE

\* One issue is closed; the others are open.
IssueState(i) == IF i = 3 THEN "closed" ELSE "open"

\* created_at as (day, second of the day); issues 2k-1 and 2k share a day,
\* issues 1 and 2 share the very same instant.
CreatedAt(i) == << (i + 1) \div 2, IF i <= 2 THEN 0 ELSE i >>

\* Authors of the comments of an issue, in order.
CommentAuthors(i) ==
    CASE i % 3 = 0 -> << "bob", "alice", "alice" >>
      [] i % 3 = 1 -> << "bob" >>
      [] OTHER     -> << >>

\* Titles an issue may carry (sequences of characters).
Titles ==
    { << "a", "/", "b" >>,
      << "a", "-", "b" >>,
      << "Q", "?", " ", "x", ":", "_", "1" >> }
InitialTitle(i) == IF i % 2 = 0 THEN << "a", "/", "b" >>
                   ELSE << "Q", "?", " ", "x", ":", "_", "1" >>

\* ------------------------------------------------------- string ordering
\* The strings the label sort compares, in Python's (code point) order.
Lexicon == << "", "Art", "Go", "Py", "Top", "Zed", "a-notes", "backend" >>
Rank(s) == IF s = NoneVal THEN 0
           ELSE CHOOSE k \in 1..Len(Lexicon) : Lexicon[k] = s

\* Lexicographic order on tuples of integers of the same length.
RECURSIVE TupleLess(_, _)
TupleLess(a, b) ==
    IF a = << >> THEN FALSE
    ELSE IF Head(a) # Head(b) THEN Head(a) < Head(b)
    ELSE TupleLess(Tail(a), Tail(b))

\* sorted(pairs by key): stable insertion sort of <<key, value>> pairs,
\* ascending by key; an element goes after the elements of equal key.
RECURSIVE InsertSorted(_, _)
InsertSorted(x, s) ==
    IF s = << >> THEN << x >>
    ELSE IF TupleLess(x[1], Head(s)[1]) THEN << x >> \o s
    ELSE << Head(s) >> \o InsertSorted(x, Tail(s))

RECURSIVE StableSort(_)
StableSort(s) ==
    IF s = << >> THEN << >>
    ELSE InsertSorted(s[Len(s)], StableSort(SubSeq(s, 1, Len(s) - 1)))

Values(pairs) == [k \in 1..Len(pairs) |-> pairs[k][2]]

Bool2Int(b) == IF b THEN 1 ELSE 0

\* ------------------------------------------------------------ small helpers
is_me(login, me) == login = me

format_time(t) == t[1]

LabelKey(l) ==
    << Bool2Int(l.description = NoneVal),
       Bool2Int(l.description = ""),
       Rank(l.description),
       Rank(l.name) >>
SortedLabels ==
    Values(StableSort([k \in 1..Len(RepoLabels) |->
                          << LabelKey(RepoLabels[k]), RepoLabels[k] >>]))

\* sorted(issues, key=lambda x: x.created_at, reverse=True): newest first,
\* issues created at the same instant keep their fetch order.
CreatedKeyReversed(i) == << 0 - CreatedAt(i)[1], 0 - CreatedAt(i)[2] >>
SortByCreatedDesc(s) ==
    Values(StableSort([k \in 1..Len(s) |-> << CreatedKeyReversed(s[k]), s[k] >>]))

\* repo.get_issues(...): newest number first (the API's default order).
AllIssuesDesc == [k \in 1..NumIssues |-> NumIssues + 1 - k]
get_issues_from_label(l) ==
    LET has(i) == Carries(i, l) /\ IssueState(i) = "open"
    IN SelectSeq(AllIssuesDesc, has)

\* ------------------------------------------------------------------ state
VARIABLES
    author,       \* issue -> login of its author (issue.user.login)
    pr,           \* issue -> TRUE when it is a pull request (issue.pull_request)
    title,        \* issue -> its current title
    readme,       \* README.md: the chunks written to it, in order
    backup,       \* the backup directory: file name -> content
    pc,           \* position in main: idle, login, get_me, get_repo, header,
                  \*   label, issues, gen, save, done
    arg,          \* --issue_number of the current run, 0 when not supplied
    work,         \* to_generate_issues of the current run (issue numbers)
    idx,          \* position of the for loop of main in work, from 1
    log,          \* what the current run printed
    written,      \* file names save_issue opened for writing in this run
    failed,       \* the steps of this run in which a call failed
    steps,        \* the steps of this run that were entered, in order
    startReadme,  \* README.md as the run found it, kept until
                  \*   add_md_header truncates the file
    startBackup,  \* the backup directory as it was when the run started
    runs, faults, edits

vars == << author, pr, title, readme, backup, pc, arg, work, idx, log,
           written, failed, steps, startReadme, startBackup,
           runs, faults, edits >>

\* The shape of the state.
TypeOK ==
    /\ author \in [1..NumIssues -> {"alice", "bob"}]
    /\ pr \in [1..NumIssues -> BOOLEAN]
    /\ DOMAIN title = 1..NumIssues
    /\ pc \in {"idle", "login", "get_me", "get_repo", "header", "label",
               "issues", "gen", "save", "done"}
    /\ arg \in 0..NumIssues
    /\ \A k \in 1..Len(work) : work[k] \in 1..NumIssues
    /\ idx \in 1..(Len(work) + 1)
    /\ Len(written) <= Len(work)
    /\ runs \in 0..MaxRuns
    /\ faults \in 0..MaxFaults
    /\ edits \in 0..MaxEdits

\* ------------------------------------------------------- README rendering
Chunk(t, label, num, ttl, date) ==
    [t |-> t, label |-> label, num |-> num, title |-> ttl, date |-> date]
MD_HEAD      == Chunk("head", "", 0, << >>, 0)
NL           == Chunk("nl", "", 0, << >>, 0)
Heading(n)   == Chunk("h2", n, 0, << >>, 0)
DetailsOpen  == Chunk("details", "", 0, << >>, 0)
DetailsClose == Chunk("/details", "", 0, << >>, 0)
AllHeading   == Chunk("h2all", "", 0, << >>, 0)

\* Variant: the pull-request test is left out.
QualifiesIgnoringPullRequest(i) == is_me(author[i], Me)

\* main.py line 87 / 108 / 178: is_me(issue, me) and not issue.pull_request
Qualifies(i) == is_me(author[i], Me) /\ ~pr[i]

\* "- [title](url) - time"; the url is determined by the number.
add_issue_info(i) == Chunk("entry", "", i, title[i], format_time(CreatedAt(i)))

\* Variant: the counter is advanced for every issue, skipped or not.
RECURSIVE LabelEntriesCountingAll(_, _)
LabelEntriesCountingAll(issues, i) ==
    IF issues = << >>
    THEN IF i > ANCHOR_NUMBER THEN << DetailsClose, NL >> ELSE << >>
    ELSE IF is_me(author[Head(issues)], Me) /\ ~pr[Head(issues)]
         THEN (IF i = ANCHOR_NUMBER THEN << DetailsOpen, NL >> ELSE << >>)
              \o << add_issue_info(Head(issues)) >>
              \o LabelEntriesCountingAll(Tail(issues), i + 1)
         ELSE LabelEntriesCountingAll(Tail(issues), i + 1)

\* The for loop of add_md_label over the issues of one label, with its
\* counter i, followed by the closing marker.  (An issue object is never
\* falsy, so the "if not issue" of line 85 skips nothing.)
RECURSIVE LabelEntries(_, _)
LabelEntries(issues, i) ==
    IF issues = << >>
    THEN IF i > ANCHOR_NUMBER THEN << DetailsClose, NL >> ELSE << >>
    ELSE IF Qualifies(Head(issues))
         THEN (IF i = ANCHOR_NUMBER THEN << DetailsOpen, NL >> ELSE << >>)
              \o << add_issue_info(Head(issues)) >>
              \o LabelEntries(Tail(issues), i + 1)
         ELSE LabelEntries(Tail(issues), i)

\* What add_md_label writes for one label.
LabelSection(l) ==
    LET issues == SortByCreatedDesc(get_issues_from_label(l.name))
    IN (IF Len(issues) # 0 THEN << Heading(l.name) >> ELSE << >>)
       \o LabelEntries(issues, 0)

\* What add_md_label writes over the sorted labels when the fetch of the
\* issues of label failAt raises (NoneVal: no fetch raises).
RECURSIVE LabelSections(_, _)
LabelSections(labels, failAt) ==
    IF labels = << >> THEN << >>
    ELSE IF Head(labels).name \in IGNORE_LABELS
         THEN LabelSections(Tail(labels), failAt)
    ELSE IF Head(labels).name = failAt THEN << >>
    ELSE LabelSection(Head(labels)) \o LabelSections(Tail(labels), failAt)

\* The entries of add_md_issues.
AllEntries ==
    LET own(i) == Qualifies(i)
        mine == SelectSeq(AllIssuesDesc, own)
    IN [k \in 1..Len(mine) |-> add_issue_info(mine[k])]

\* ------------------------------------------------------------ file names
DigitChars == << "0", "1", "2", "3", "4", "5", "6", "7", "8", "9" >>

RECURSIVE Digits(_)
Digits(n) ==
    IF n < 10 THEN << DigitChars[n + 1] >>
    ELSE Digits(n \div 10) \o << DigitChars[(n % 10) + 1] >>

\* str.replace(c, r) for a one-character c.
RECURSIVE Replace(_, _, _)
Replace(s, c, r) ==
    IF s = << >> THEN << >>
    ELSE (IF Head(s) = c THEN r ELSE << Head(s) >>) \o Replace(Tail(s), c, r)

safe_title(t) ==
    Replace(Replace(Replace(Replace(Replace(Replace(Replace(Replace(Replace(
        t, "/", << "-" >>), " ", << "." >>), "?", << >>), ":", << >>),
        "*", << >>), "\"", << >>), "<", << >>), ">", << >>), "|", << >>)

md_name(i, t) == Digits(i) \o << "_" >> \o safe_title(t) \o << ".", "m", "d" >>

\* i.split("_")[0]
RECURSIVE SplitFirst(_)
SplitFirst(s) ==
    IF s = << >> \/ Head(s) = "_" THEN << >>
    ELSE << Head(s) >> \o SplitFirst(Tail(s))

IsDigit(s) ==
    /\ s # << >>
    /\ \A k \in 1..Len(s) : \E d \in 1..10 : DigitChars[d] = s[k]

RECURSIVE ToInt(_)
ToInt(s) ==
    IF s = << >> THEN 0
    ELSE 10 * ToInt(SubSeq(s, 1, Len(s) - 1))
         + (CHOOSE d \in 0..9 : DigitChars[d + 1] = s[Len(s)])

\* generated_issues_numbers of get_to_generate_issues for directory dir.
generated_issues_numbers(dir) ==
    { ToInt(SplitFirst(f)) : f \in { g \in DOMAIN dir : IsDigit(SplitFirst(g)) } }

\* Variant: the existing backup files are not looked at.
to_generate_unfiltered(dir) == AllIssuesDesc

\* The list comprehension of get_to_generate_issues.
to_generate_issues(dir) ==
    LET todo(i) == i \notin generated_issues_numbers(dir)
    IN SelectSeq(AllIssuesDesc, todo)

\* Variant: the requested issue is added only when it has no backup yet.
get_to_generate_unless_present(dir, n, fetched) ==
    to_generate_issues(dir)
    \o (IF n # 0 /\ fetched /\ n \notin generated_issues_numbers(dir)
        THEN << n >> ELSE << >>)

\* The list get_to_generate_issues returns for --issue_number n (0: not
\* supplied); fetched is FALSE when repo.get_issue raised.
get_to_generate_issues(dir, n, fetched) ==
    to_generate_issues(dir) \o (IF n # 0 /\ fetched THEN << n >> ELSE << >>)

\* ---------------------------------------------------------- backup files
RECURSIVE OwnComments(_)
OwnComments(authors) ==
    IF authors = << >> THEN 0
    ELSE Bool2Int(is_me(Head(authors), Me)) + OwnComments(Tail(authors))

\* The content save_issue writes; withComments is FALSE when get_comments
\* raised, which leaves the file with what was written before.
FileContent(i, withComments) ==
    [ title    |-> title[i],
      time     |-> format_time(CreatedAt(i)),
      comments |-> IF withComments THEN OwnComments(CommentAuthors(i)) ELSE 0 ]

EmptyDir == [f \in {} |-> 0]

\* ------------------------------------------------------------- exceptions
\* Variant: get_repo has a try block of its own.
CaughtByWithRepoHandler(step) ==
    CASE step = "issues"   -> "add_md_issues"
      [] step = "fetch"    -> "get_to_generate_issues"
      [] step = "save"     -> "save_issue"
      [] step = "get_repo" -> "get_repo"
      [] OTHER             -> "main"

\* Variant: save_issue has no try block.
CaughtByWithoutSaveHandler(step) ==
    CASE step = "issues" -> "add_md_issues"
      [] step = "fetch"  -> "get_to_generate_issues"
      [] OTHER           -> "main"

\* The try block that catches an exception raised in a step of the run.
CaughtBy(step) ==
    CASE step = "issues" -> "add_md_issues"
      [] step = "fetch"  -> "get_to_generate_issues"
      [] step = "save"   -> "save_issue"
      [] OTHER           -> "main"

Printed(msg, num) == [msg |-> msg, num |-> num]

\* The line the except clause of a try block prints.
ErrorLine(step, num) ==
    CASE CaughtBy(step) = "add_md_issues"          -> Printed("Error adding issues", 0)
      [] CaughtBy(step) = "get_to_generate_issues" -> Printed("Error getting issue", num)
      [] CaughtBy(step) = "save_issue"             -> Printed("Error saving issue", num)
      [] OTHER                                     -> Printed("Error in main", 0)

\* May one more call fail?
CanFail == faults < MaxFaults
Outcomes == IF CanFail THEN {"ok", "raise"} ELSE {"ok"}

\* A call of step raised: the fault is counted and the line is printed;
\* control goes to the end of main when main's except caught it, and to
\* next, the step after the try block that caught it, otherwise.
Raise(step, num, next) ==
    /\ faults' = faults + 1
    /\ failed' = failed \cup {step}
    /\ log' = Append(log, ErrorLine(step, num))
    /\ pc' = IF CaughtBy(step) = "main" THEN "done" ELSE next

NoRaise(next) ==
    /\ pc' = next
    /\ UNCHANGED << faults, failed, log >>

\* ------------------------------------------------------------------ Init
Kinds == [author : Logins, pr : BOOLEAN]

Init ==
    /\ \E k \in [Varying -> Kinds] :
          /\ author = [i \in Issues |-> IF i \in Varying THEN k[i].author ELSE Me]
          /\ pr = [i \in Issues |-> IF i \in Varying THEN k[i].pr ELSE FALSE]
    /\ title = [i \in Issues |-> InitialTitle(i)]
    /\ readme = << >>
    /\ backup = EmptyDir
    /\ pc = "idle"
    /\ arg = 0
    /\ work = << >>
    /\ idx = 1
    /\ log = << >>
    /\ written = << >>
    /\ failed = {}
    /\ steps = << >>
    /\ startReadme = << >>
    /\ startBackup = EmptyDir
    /\ runs = 0
    /\ faults = 0
    /\ edits = 0

\* --------------------------------------------------------------- actions
Repo == << author, pr, title >>

\* python main.py token repo [--issue_number n]
StartRun ==
    /\ pc = "idle"
    /\ runs < MaxRuns
    /\ \E n \in {0} \cup Picked : arg' = n
    /\ pc' = "login"
    /\ runs' = runs + 1
    /\ work' = << >>
    /\ idx' = 1
    /\ log' = << >>
    /\ written' = << >>
    /\ failed' = {}
    /\ steps' = << >>
    /\ startReadme' = readme
    /\ startBackup' = backup
    /\ UNCHANGED << Repo, readme, backup, faults, edits >>

\* A step of main that only calls the API: user = login(token),
\* me = get_me(user), repo = get_repo(user, repo_name).
Setup(step, next) ==
    /\ pc = step
    /\ steps' = Append(steps, step)
    /\ \E o \in Outcomes :
          IF o = "raise" THEN Raise(step, 0, next) ELSE NoRaise(next)
    /\ UNCHANGED << Repo, readme, backup, arg, work, idx, written,
                    startReadme, startBackup, runs, edits >>

Login == Setup("login", "get_me")
GetMe == Setup("get_me", "get_repo")
GetRepo == Setup("get_repo", "header")

\* add_md_header("README.md", repo_name): opens with "w" and writes the head.
AddMdHeader ==
    /\ pc = "header"
    /\ steps' = Append(steps, "header")
    /\ readme' = << MD_HEAD, NL >>
    /\ startReadme' = << >>
    /\ NoRaise("label")
    /\ UNCHANGED << Repo, backup, arg, work, idx, written,
                    startBackup, runs, edits >>

\* The calls of add_md_label that may raise: get_repo_labels, or the fetch
\* of the issues of one label that is not ignored.
LabelCalls ==
    {"get_labels"} \cup
    { RepoLabels[k].name : k \in { j \in 1..Len(RepoLabels) :
                                     RepoLabels[j].name \notin IGNORE_LABELS } }

\* add_md_label(repo, "README.md", me)
AddMdLabel ==
    /\ pc = "label"
    /\ steps' = Append(steps, "label")
    /\ \E f \in {NoneVal} \cup (IF CanFail THEN LabelCalls ELSE {}) :
          /\ readme' = readme \o (IF f = "get_labels" THEN << >>
                                   ELSE LabelSections(SortedLabels, f))
          /\ IF f # NoneVal THEN Raise("label", 0, "issues") ELSE NoRaise("issues")
    /\ UNCHANGED << Repo, backup, arg, work, idx, written,
                    startReadme, startBackup, runs, edits >>

\* add_md_issues(repo, "README.md", me)
AddMdIssues ==
    /\ pc = "issues"
    /\ steps' = Append(steps, "issues")
    /\ \E o \in Outcomes :
          IF o = "raise"
          THEN /\ readme' = readme \o << AllHeading >>
               /\ Raise("issues", 0, "gen")
          ELSE /\ readme' = readme \o << AllHeading >> \o AllEntries
               /\ NoRaise("gen")
    /\ UNCHANGED << Repo, backup, arg, work, idx, written,
                    startReadme, startBackup, runs, edits >>

\* to_generate_issues = get_to_generate_issues(repo, dir_name, issue_number)
\* "list": repo.get_issues(state="all") raises; "fetch": repo.get_issue raises.
GetToGenerateIssues ==
    /\ pc = "gen"
    /\ steps' = Append(steps, "gen")
    /\ idx' = 1
    /\ \E f \in {"ok"} \cup (IF CanFail THEN {"list"} ELSE {})
                       \cup (IF CanFail /\ arg # 0 THEN {"fetch"} ELSE {}) :
          CASE f = "list" ->
                 /\ work' = work
                 /\ Raise("gen", 0, "save")
            [] f = "fetch" ->
                 /\ work' = get_to_generate_issues(backup, arg, FALSE)
                 /\ Raise("fetch", arg, "save")
            [] OTHER ->
                 /\ work' = get_to_generate_issues(backup, arg, TRUE)
                 /\ NoRaise("save")
    /\ UNCHANGED << Repo, readme, backup, arg, written,
                    startReadme, startBackup, runs, edits >>

\* One pass of the for loop of main over an issue that passes line 178:
\* save_issue(issue, me, dir_name).  "open": open(md_name, "w") raises, the
\* file is not touched; "comments": issue.get_comments() raises after the
\* title, time and body were written.
SaveIssue ==
    /\ pc = "save"
    /\ idx <= Len(work)
    /\ Qualifies(work[idx])
    /\ steps' = Append(steps, "save")
    /\ idx' = idx + 1
    /\ LET i == work[idx]
           name == md_name(i, title[i])
       IN \E f \in {"ok"} \cup (IF CanFail THEN {"open"} ELSE {})
                         \cup (IF CanFail /\ Len(CommentAuthors(i)) # 0
                               THEN {"comments"} ELSE {}) :
            CASE f = "open" ->
                   /\ UNCHANGED << backup, written >>
                   /\ Raise("save", i, "save")
              [] f = "comments" ->
                   /\ backup' = (name :> FileContent(i, FALSE)) @@ backup
                   /\ written' = Append(written, name)
                   /\ Raise("save", i, "save")
              [] OTHER ->
                   /\ backup' = (name :> FileContent(i, TRUE)) @@ backup
                   /\ written' = Append(written, name)
                   /\ NoRaise("save")
    /\ UNCHANGED << Repo, readme, arg, work, startReadme, startBackup,
                    runs, edits >>

\* One pass of the for loop of main over an issue that fails line 178.
SkipIssue ==
    /\ pc = "save"
    /\ idx <= Len(work)
    /\ ~Qualifies(work[idx])
    /\ idx' = idx + 1
    /\ UNCHANGED << Repo, readme, backup, pc, arg, work, log, written, failed,
                    steps, startReadme, startBackup, runs, faults, edits >>

\* print(f"Generated README.md and {len(to_generate_issues)} backup files")
Summary ==
    /\ pc = "save"
    /\ idx > Len(work)
    /\ log' = Append(log, Printed("Generated", Len(work)))
    /\ pc' = "done"
    /\ steps' = Append(steps, "summary")
    /\ UNCHANGED << Repo, readme, backup, arg, work, idx, written, failed,
                    startReadme, startBackup, runs, faults, edits >>

\* The process exits.
Exit ==
    /\ pc = "done"
    /\ pc' = "idle"
    /\ UNCHANGED << Repo, readme, backup, arg, work, idx, log, written, failed,
                    steps, startReadme, startBackup, runs, faults, edits >>

\* Between two runs the title of an issue is edited on GitHub.
EditTitle ==
    /\ pc = "idle"
    /\ 0 < runs
    /\ runs < MaxRuns
    /\ edits < MaxEdits
    /\ edits' = edits + 1
    /\ \E i \in Picked : \E t \in Titles \ {title[i]} :
          title' = [title EXCEPT ![i] = t]
    /\ UNCHANGED << author, pr, readme, backup, pc, arg, work, idx, log,
                    written, failed, steps, startReadme, startBackup,
                    runs, faults >>

Next ==
    \/ StartRun
    \/ Login
    \/ GetMe
    \/ GetRepo
    \/ AddMdHeader
    \/ AddMdLabel
    \/ AddMdIssues
    \/ GetToGenerateIssues
    \/ SaveIssue
    \/ SkipIssue
    \/ Summary
    \/ Exit
    \/ EditTitle

Spec == Init /\ [][Next]_vars

\* ------------------------------------------------- vocabulary of the claims
Range(s) == { s[k] : k \in 1..Len(s) }

\* The issue is written by the authenticated user and is no pull request.
OwnIssue(i) == author[i] = Me /\ pr[i] = FALSE

\* File name f starts with the digits of n followed by "_".
HasPrefix(f, n) ==
    LET p == Digits(n) \o << "_" >>
    IN Len(f) >= Len(p) /\ SubSeq(f, 1, Len(p)) = p

\* The issue numbers that have a backup file in directory dir.
BackedUp(dir) == { n \in Issues : \E f \in DOMAIN dir : HasPrefix(f, n) }

HasEntry(i) == \E k \in 1..Len(readme) : readme[k].t = "entry" /\ readme[k].num = i

Entered(step) == step \in Range(steps)
SetupSteps == {"login", "get_me", "get_repo"}

\* The label sections of README.md: the positions of their headings, and
\* the chunks of a section without its blank lines.
LabelHeadings == { h \in 1..Len(readme) : readme[h].t = "h2" }
SectionEnd(h) ==
    IF \E e \in (h + 1)..Len(readme) : readme[e].t \in {"h2", "h2all"}
    THEN CHOOSE e \in (h + 1)..Len(readme) :
            /\ readme[e].t \in {"h2", "h2all"}
            /\ \A d \in (h + 1)..(e - 1) : readme[d].t \notin {"h2", "h2all"}
    ELSE Len(readme) + 1
SectionBody(h) ==
    LET notBlank(c) == c.t # "nl"
    IN SelectSeq(SubSeq(readme, h + 1, SectionEnd(h) - 1), notBlank)
EntryCount(b) == Cardinality({ k \in 1..Len(b) : b[k].t = "entry" })

\* ---------------------------------------------------------------- claims

\* C1: in a run in which nothing failed, an issue has a list entry in
\* README.md exactly when its author is the authenticated user and it is
\* not a pull request.
C1_EntryIffOwnIssue ==
    (pc = "done" /\ failed = {}) =>
        \A i \in Issues : HasEntry(i) <=> OwnIssue(i)

C1_Witness ==
    /\ pc = "done" /\ failed = {}
    /\ \E i, j, k \in Issues :
          /\ OwnIssue(i) /\ HasEntry(i)
          /\ pr[j] /\ author[j] = Me /\ ~HasEntry(j)
          /\ author[k] # Me /\ ~pr[k] /\ ~HasEntry(k)

\* C2: README.md has the heading of a label only if some issue carrying
\* the label is by the authenticated user and not a pull request.
C2_HeadingOnlyIfOwnIssue ==
    \A h \in LabelHeadings :
        \E i \in Issues : Carries(i, readme[h].label) /\ OwnIssue(i)

\* C3: in every label section the entries are the open own issues of the
\* label; the opening marker stands once, after exactly ANCHOR_NUMBER
\* entries and before the next one; the closing marker ends the section
\* exactly when it has more than ANCHOR_NUMBER entries.
C3_AnchorBlockBalanced ==
    \A h \in LabelHeadings :
        LET b == SectionBody(h)
            opens == { k \in 1..Len(b) : b[k].t = "details" }
            closes == { k \in 1..Len(b) : b[k].t = "/details" }
        IN /\ \A k \in 1..Len(b) : b[k].t = "entry" => OwnIssue(b[k].num)
           /\ EntryCount(b) =
                 Cardinality({ i \in Issues : /\ Carries(i, readme[h].label)
                                              /\ IssueState(i) = "open"
                                              /\ OwnIssue(i) })
           /\ Cardinality(opens) <= 1
           /\ Cardinality(opens) = Cardinality(closes)
           /\ \A k \in opens :
                 /\ k = ANCHOR_NUMBER + 1
                 /\ \A j \in 1..(k - 1) : b[j].t = "entry"
                 /\ k < Len(b) /\ b[k + 1].t = "entry"
           /\ (closes # {}) <=> (EntryCount(b) > ANCHOR_NUMBER)
           /\ \A k \in closes : k = Len(b)

C3_Witness ==
    \E h \in LabelHeadings :
        /\ \E k \in 1..Len(SectionBody(h)) : SectionBody(h)[k].t = "details"
        /\ \E i \in Issues :
              /\ Carries(i, readme[h].label) /\ IssueState(i) = "open"
              /\ ~OwnIssue(i)
              /\ i > SectionBody(h)[ANCHOR_NUMBER + 2].num

\* C4: in a run without --issue_number, a number that had a backup file
\* when the run started is not in the work list, and the run opens no file
\* of that number: its files are the ones found, unchanged.
C4_BackedUpNotRegenerated ==
    (runs > 0 /\ arg = 0) =>
        \A n \in BackedUp(startBackup) :
            /\ n \notin Range(work)
            /\ \A f \in Range(written) : ~HasPrefix(f, n)
            /\ \A f \in DOMAIN backup :
                  HasPrefix(f, n) => f \in DOMAIN startBackup
                                     /\ backup[f] = startBackup[f]

C4_Witness ==
    /\ pc = "done" /\ arg = 0
    /\ BackedUp(startBackup) # {}
    /\ written # << >>
    /\ \E n \in BackedUp(startBackup) : title[n] # InitialTitle(n)

\* C5: in a run with --issue_number n in which nothing failed, n having a
\* backup file already, n is in the work list once the list is computed
\* and, when n is an own issue, a file of n has been written by the end.
C5_RequestedIsReprocessed ==
    (arg # 0 /\ arg \in BackedUp(startBackup) /\ failed = {}) =>
        /\ (Entered("gen") /\ pc # "gen") => arg \in Range(work)
        /\ (pc = "done" /\ OwnIssue(arg)) =>
              \E f \in Range(written) : HasPrefix(f, arg)

C5_Witness ==
    /\ pc = "done" /\ failed = {}
    /\ arg # 0 /\ arg \in BackedUp(startBackup) /\ OwnIssue(arg)
    /\ \E f \in Range(written) : HasPrefix(f, arg)

\* C6: the backup directory never holds two files of the same number.
C6_OneFilePerNumber ==
    \A f, g \in DOMAIN backup :
        (\E n \in Issues : HasPrefix(f, n) /\ HasPrefix(g, n)) => f = g

\* C7: when login, get_me or get_repo fails, "Error in main" is printed and
\* the run is over: README.md and the backup directory are as the run
\* found them and no later step is entered.
C7_SetupFailureAborts ==
    (failed \cap SetupSteps # {}) =>
        /\ pc \in {"done", "idle"}
        /\ log = << Printed("Error in main", 0) >>
        /\ readme = startReadme
        /\ backup = startBackup
        /\ written = << >>
        /\ work = << >>
        /\ Range(steps) \subseteq SetupSteps

C7_Witness ==
    /\ pc = "done"
    /\ failed \cap SetupSteps # {}
    /\ readme # << >>
    /\ backup # EmptyDir

\* C8: when add_md_label or add_md_issues fails, the run still goes on:
\* after a failure of add_md_label add_md_issues is entered, and after
\* either the work list is computed.
C8_SectionFailureIsolated ==
    (pc = "done" /\ failed \cap {"label", "issues"} # {}) =>
        /\ ("label" \in failed => Entered("issues"))
        /\ Entered("gen")

\* C9: once the work list is computed, every issue of it is processed and
\* the summary is printed: an own issue has a file written or its failure
\* printed with its number; and when fetching the requested issue failed,
\* that is printed and the work list is the issues without a backup.
C9_ItemFailureIsolated ==
    (pc = "done" /\ Entered("gen") /\ "gen" \notin failed) =>
        /\ idx = Len(work) + 1
        /\ log[Len(log)] = Printed("Generated", Len(work))
        /\ \A k \in 1..Len(work) :
              OwnIssue(work[k]) =>
                 \/ \E f \in Range(written) : HasPrefix(f, work[k])
                 \/ Printed("Error saving issue", work[k]) \in Range(log)
        /\ "fetch" \in failed =>
              /\ Printed("Error getting issue", arg) \in Range(log)
              /\ Range(work) = Issues \ BackedUp(startBackup)

C9_Witness ==
    /\ pc = "done"
    /\ "save" \in failed
    /\ \E a, b \in 1..Len(work) :
          /\ a < b
          /\ Printed("Error saving issue", work[a]) \in Range(log)
          /\ \A f \in Range(written) : ~HasPrefix(f, work[a])
          /\ \E f \in Range(written) : HasPrefix(f, work[b])

\* C10: the number in the summary line is the number of distinct files
\* save_issue wrote in the run.
C10_SummaryCountsWrittenFiles ==
    \A k \in 1..Len(log) :
        log[k].msg = "Generated" => log[k].num = Cardinality(Range(written))

====
